---- MODULE Spec2Model ----
(***************************************************************************)
(* Edit history of the Tkinter/OpenCV image editor:                        *)
(*   history_manager.py  HistoryManager (undo stack, redo stack)           *)
(*   app.py              ImageEditorApp (current image, slider session,    *)
(*                       one-shot edits, undo/redo, open, reset sliders)   *)
(*   image_processor.py  ImageProcessor (the pixel transforms)             *)
(*                                                                         *)
(* An image is a numpy array of shape (h, w, 3): here a sequence of h rows,*)
(* each a sequence of w pixels, each pixel a triple <<B, G, R>> of 8-bit   *)
(* samples.  The value None is modelled by the empty sequence, which is no *)
(* image (an image has at least one row).                                  *)
(***************************************************************************)
EXTENDS Integers, Sequences, FiniteSets, TLC

VARIABLES
    max_states,          \* HistoryManager.max_states
    undo_stack,          \* HistoryManager._undo_stack   (most recent last)
    redo_stack,          \* HistoryManager._redo_stack   (most recent last)
    current_image,       \* ImageEditorApp.current_image (NoImage = None)
    active_slider,       \* ImageEditorApp._active_slider ("none" = None)
    slider_base_image,   \* ImageEditorApp._slider_base_image (NoImage = None)
    blur_var,            \* tk.IntVar of the blur scale
    bright_var,          \* tk.IntVar of the brightness scale
    contrast_var,        \* tk.IntVar of the contrast scale
    scale_var,           \* tk.IntVar of the resize scale
    call,                \* history variable: the operation performed last
    sess,                \* history variable: the slider session since its press
    pre,                 \* history variable: the state the last HistoryManager call started in
    pushLog,             \* history variable: the images pushed since the stacks were empty
    phase,               \* history variable: "push", "undo" or "other" (see Track*)
    undoRun,             \* history variable: undos performed in phase "undo"
    undoCount,           \* history variable: successful undos since the last push or clear
    ids,                 \* the object each reference holds: [cur, base, undo, redo]
    steps                \* number of UI events handled so far

vars ==
    << max_states, undo_stack, redo_stack, current_image, active_slider,
       slider_base_image, blur_var, bright_var, contrast_var, scale_var,
       call, pre, sess, pushLog, phase, undoRun, undoCount, ids, steps >>

historyVars ==
    << max_states, undo_stack, redo_stack >>

appVars ==
    << current_image, active_slider, slider_base_image, blur_var, bright_var,
       contrast_var, scale_var, sess, steps >>

trackVars ==
    << pre, pushLog, phase, undoRun, undoCount >>

-----------------------------------------------------------------------------
(* Bounds of the model *)

\* largest capacity a stand-alone HistoryManager is constructed with
MaxCapacity == 2

\* longest run of pushes the history variable pushLog records
MaxPushes == 3

\* number of UI events the editor handles in one behaviour
MaxEvents == 5

\* value at which the history variable undoCount stops counting
MaxUndoCount == 4

-----------------------------------------------------------------------------
(* Values *)

NoImage == << >>

NoSlider == "none"

Sliders == {"blur", "brightness", "contrast"}

\* two files on disk, as cv2.imread returns them: 1 row, 2 pixels, BGR
ImgA == << << <<10, 20, 30>>, <<200, 100, 50>> >> >>

ImgB == << << <<0, 128, 255>>, <<90, 91, 92>> >> >>

Files == {ImgA, ImgB}

\* values the user drags the scales to (each inside the scale's from_..to range)
BlurValues == {0, 2}

BrightValues == {-100, 50}

ContrastValues == {50, 200}

ScaleValues == {50, 100}

Angles == {90, 180, 270}

FlipModes == {"horizontal", "vertical"}

-----------------------------------------------------------------------------
(* Arithmetic helpers of numpy / OpenCV *)

Abs(x) == IF x < 0 THEN -x ELSE x

Min(a, b) == IF a < b THEN a ELSE b

Max(a, b) == IF a > b THEN a ELSE b

\* cv::saturate_cast<uchar>
Sat8(x) == IF x < 0 THEN 0 ELSE IF x > 255 THEN 255 ELSE x

\* cvRound(n / d) for n >= 0, d > 0: round to nearest, ties to even
RoundHalfEven(n, d) ==
    LET q == n \div d
        r == n % d
    IN  IF 2 * r > d \/ (2 * r = d /\ q % 2 = 1) THEN q + 1 ELSE q

Height(img) == Len(img)

Width(img) == Len(img[1])

\* numpy.ndarray.copy(): a new buffer with the same contents
Copy(img) == img

MapSamples(img, F(_)) ==
    [r \in 1..Height(img) |->
        [c \in 1..Width(img) |-> [k \in 1..3 |-> F(img[r][c][k])]]]

\* cv2 BORDER_REFLECT_101 on the 1-based index range 1..n
RECURSIVE Reflect101(_, _)
Reflect101(i, n) ==
    IF n = 1 THEN 1
    ELSE IF i < 1 THEN Reflect101(2 - i, n)
    ELSE IF i > n THEN Reflect101(2 * n - i, n)
    ELSE i

RECURSIVE SeqSum(_)
SeqSum(s) == IF s = << >> THEN 0 ELSE Head(s) + SeqSum(Tail(s))

-----------------------------------------------------------------------------
(* image_processor.py: ImageProcessor *)

\* cv2.cvtColor(img, COLOR_BGR2GRAY) of one pixel: the 14-bit fixed-point
\* luma 0.114 B + 0.587 G + 0.299 R
GrayOf(px) == (px[1] * 1868 + px[2] * 9617 + px[3] * 4899 + 8192) \div 16384

\* cv2.cvtColor(gray, COLOR_GRAY2BGR) of one sample
GrayToBGR(y) == << y, y, y >>

to_grayscale(img) ==
    [r \in 1..Height(img) |->
        [c \in 1..Width(img) |-> GrayToBGR(GrayOf(img[r][c]))]]

\* the fixed kernels cv2.getGaussianKernel uses for ksize <= 7 and sigma = 0
GaussKernel(k) ==
    CASE k = 1 -> << 1 >>
      [] k = 3 -> << 1, 2, 1 >>
      [] k = 5 -> << 1, 4, 6, 4, 1 >>
      [] k = 7 -> << 2, 7, 14, 18, 14, 7, 2 >>

\* cv2.GaussianBlur(img, (k, k), 0): separable kernel, reflect-101 border,
\* 8-bit fixed-point sum rounded to nearest
GaussianBlur(img, k) ==
    LET K == GaussKernel(k)
        S == SeqSum(K)
        half == (k - 1) \div 2
        h == Height(img)
        w == Width(img)
        Term(r, c, ch, n) ==
            LET i == ((n - 1) \div k) + 1
                j == ((n - 1) % k) + 1
            IN  K[i] * K[j]
                  * img[Reflect101(r + i - 1 - half, h)][Reflect101(c + j - 1 - half, w)][ch]
        Acc(r, c, ch) == SeqSum([n \in 1..(k * k) |-> Term(r, c, ch, n)])
    IN  [r \in 1..h |->
            [c \in 1..w |->
                [ch \in 1..3 |-> Sat8((Acc(r, c, ch) + (S * S) \div 2) \div (S * S))]]]

blur(img, intensity) ==
    IF intensity <= 0 THEN Copy(img)
    ELSE LET k0 == Max(1, intensity)
             k == IF k0 % 2 = 0 THEN k0 + 1 ELSE k0
         IN  GaussianBlur(img, k)

\* cv2.convertScaleAbs(img, alpha=1.0, beta=value): saturate(|s + value|)
adjust_brightness(img, value) ==
    MapSamples(img, LAMBDA s : Sat8(Abs(s + value)))

\* cv2.convertScaleAbs(img, alpha=max(0, value/100), beta=0)
adjust_contrast(img, value) ==
    MapSamples(img, LAMBDA s : Sat8(RoundHalfEven(s * Max(0, value), 100)))

rotate(img, angle) ==
    LET h == Height(img)
        w == Width(img)
    IN  IF angle = 90
          THEN [r \in 1..w |-> [c \in 1..h |-> img[h - c + 1][r]]]
        ELSE IF angle = 180
          THEN [r \in 1..h |-> [c \in 1..w |-> img[h - r + 1][w - c + 1]]]
        ELSE IF angle = 270
          THEN [r \in 1..w |-> [c \in 1..h |-> img[c][w - r + 1]]]
        ELSE Copy(img)

flip(img, mode) ==
    LET h == Height(img)
        w == Width(img)
    IN  IF mode = "horizontal"
          THEN [r \in 1..h |-> [c \in 1..w |-> img[r][w - c + 1]]]
        ELSE IF mode = "vertical"
          THEN [r \in 1..h |-> [c \in 1..w |-> img[h - r + 1][c]]]
        ELSE Copy(img)

\* ImageProcessor.DEFAULT_CANNY
CannyLow == 80

CannyHigh == 160

\* cv2.Canny(gray, low, high) on an image of at most two pixels in a line
\* (every image of this model): the 3x3 Sobel gradient with replicated border
\* has L1 magnitude 4*|a - b| at both pixels, non-maximum suppression keeps
\* the first pixel only, and it is an edge when the magnitude exceeds `high`
\* (a weak edge has no strong neighbour to attach to).
Canny(gray, low, high) ==
    LET h == Len(gray)
        w == Len(gray[1])
        a == gray[1][1]
        b == gray[h][w]
        mag == 4 * Abs(a - b)
    IN  [r \in 1..h |->
            [c \in 1..w |->
                IF r = 1 /\ c = 1 /\ mag > low /\ mag > high THEN 255 ELSE 0]]

edges(img) ==
    LET gray == [r \in 1..Height(img) |-> [c \in 1..Width(img) |-> GrayOf(img[r][c])]]
        e == Canny(gray, CannyLow, CannyHigh)
    IN  [r \in 1..Height(img) |-> [c \in 1..Width(img) |-> GrayToBGR(e[r][c])]]

\* cv2.resize(img, (new_w, new_h), interpolation=INTER_AREA) where the new
\* size divides the old one: each output pixel is the mean of its block
ResizeArea(img, new_w, new_h) ==
    LET bh == Height(img) \div new_h
        bw == Width(img) \div new_w
        Block(r, c, ch) ==
            SeqSum([n \in 1..(bh * bw) |->
                img[(r - 1) * bh + ((n - 1) \div bw) + 1][(c - 1) * bw + ((n - 1) % bw) + 1][ch]])
    IN  [r \in 1..new_h |->
            [c \in 1..new_w |->
                [ch \in 1..3 |-> Sat8(RoundHalfEven(Block(r, c, ch), bh * bw))]]]

resize_scale(img, percent) ==
    LET p == Max(10, Min(200, percent))
        new_w == Max(1, (Width(img) * p) \div 100)
        new_h == Max(1, (Height(img) * p) \div 100)
    IN  ResizeArea(img, new_w, new_h)

-----------------------------------------------------------------------------
(* history_manager.py: HistoryManager *)

can_undo(us) == Len(us) > 0

can_redo(rs) == Len(rs) > 0

\* HistoryManager.__len__
history_len(us, rs) == Len(us) + Len(rs)

\* list.pop(): the list without its last element
Front(s) == SubSeq(s, 1, Len(s) - 1)

Last(s) == s[Len(s)]

\* mutant of push: no eviction
History_push_NoEvict(us, rs, maxs, img) ==
    [undo |-> Append(us, Copy(img)), redo |-> << >>]

\* mutant of push: evicts the newest entry (pop() for pop(0))
History_push_EvictNewest(us, rs, maxs, img) ==
    LET appended == Append(us, Copy(img))
    IN  [undo |-> IF Len(appended) > maxs THEN Front(appended) ELSE appended,
         redo |-> << >>]

\* mutant of push: the redo stack is kept
History_push_KeepRedo(us, rs, maxs, img) ==
    LET appended == Append(us, Copy(img))
    IN  [undo |-> IF Len(appended) > maxs THEN Tail(appended) ELSE appended,
         redo |-> rs]

\* HistoryManager.push(img): the stacks afterwards
History_push(us, rs, maxs, img) ==
    LET appended == Append(us, Copy(img))
    IN  [undo |-> IF Len(appended) > maxs THEN Tail(appended) ELSE appended,
         redo |-> << >>]

\* mutant of undo: the current image is stored before the emptiness test
History_undo_StoreFirst(us, rs, current_img) ==
    IF ~can_undo(us)
      THEN [undo |-> us, redo |-> Append(rs, Copy(current_img)), ret |-> NoImage]
      ELSE [undo |-> Front(us),
            redo |-> Append(rs, Copy(current_img)),
            ret  |-> Last(us)]

\* mutant of undo: returns the oldest snapshot (pop(0) for pop())
History_undo_PopOldest(us, rs, current_img) ==
    IF ~can_undo(us)
      THEN [undo |-> us, redo |-> rs, ret |-> NoImage]
      ELSE [undo |-> Tail(us),
            redo |-> Append(rs, Copy(current_img)),
            ret  |-> Head(us)]

\* HistoryManager.undo(current_img): the stacks afterwards and the value returned
History_undo(us, rs, current_img) ==
    IF ~can_undo(us)
      THEN [undo |-> us, redo |-> rs, ret |-> NoImage]
      ELSE [undo |-> Front(us),
            redo |-> Append(rs, Copy(current_img)),
            ret  |-> Last(us)]

\* mutant of redo: the returned snapshot stays on the redo stack
History_redo_NoPop(us, rs, current_img) ==
    IF ~can_redo(rs)
      THEN [undo |-> us, redo |-> rs, ret |-> NoImage]
      ELSE [undo |-> Append(us, Copy(current_img)),
            redo |-> rs,
            ret  |-> Last(rs)]

\* HistoryManager.redo(current_img): the stacks afterwards and the value returned
History_redo(us, rs, current_img) ==
    IF ~can_redo(rs)
      THEN [undo |-> us, redo |-> rs, ret |-> NoImage]
      ELSE [undo |-> Append(us, Copy(current_img)),
            redo |-> Front(rs),
            ret  |-> Last(rs)]

\* HistoryManager.clear()
History_clear(us, rs) == [undo |-> << >>, redo |-> << >>]

-----------------------------------------------------------------------------
(* History variables: what the last operation was and where it started *)

\* HistoryManager(max_states=25) in ImageEditorApp.__init__
APP_MAX_STATES == 25

\* sess: the image and the undo stack at the press that began the session,
\* the number of previews since, and whether only previews happened since
IdleSess ==
    [B0 |-> NoImage, undo0 |-> << >>, n |-> 0, pure |-> FALSE]

NoCall ==
    [op |-> "init", arg |-> NoImage, ret |-> NoImage, pushed |-> FALSE,
     slider |-> NoSlider, nundo |-> 0, nredo |-> 0, sess |-> IdleSess]

\* call: the operation, its image argument, the image HistoryManager returned,
\* whether it called HistoryManager.push, the slider it was about, the sizes
\* of the stacks it started with and, for a release, the session it ended
Called(op, arg, ret, pushed, slider) ==
    [op |-> op, arg |-> arg, ret |-> ret, pushed |-> pushed, slider |-> slider,
     nundo |-> Len(undo_stack), nredo |-> Len(redo_stack),
     sess |-> IF op = "release" THEN sess ELSE IdleSess]

\* the stacks a HistoryManager call starts with, and the call before it
Snapshot ==
    [undo |-> undo_stack, redo |-> redo_stack, call |-> call]

\* the images pushed since the stacks were last empty, while only pushes ran
TrackPush(img) ==
    IF phase = "push" /\ Len(pushLog) < MaxPushes
      THEN /\ pushLog' = Append(pushLog, img)
           /\ UNCHANGED << phase, undoRun >>
      ELSE /\ phase' = "other"
           /\ pushLog' = << >>
           /\ undoRun' = 0

\* the undos that directly follow that run of pushes, at most one per push
TrackUndo ==
    IF phase \in {"push", "undo"} /\ undoRun < Len(pushLog)
      THEN /\ phase' = "undo"
           /\ undoRun' = undoRun + 1
           /\ UNCHANGED pushLog
      ELSE /\ phase' = "other"
           /\ pushLog' = << >>
           /\ undoRun' = 0

TrackOther ==
    /\ phase' = "other"
    /\ pushLog' = << >>
    /\ undoRun' = 0

TrackClear ==
    /\ phase' = "push"
    /\ pushLog' = << >>
    /\ undoRun' = 0

-----------------------------------------------------------------------------
(* Object identity of the numpy buffers *)

\* the reference that is None
NoId == 0

\* the references of the program, in a fixed order: current_image,
\* _slider_base_image, _undo_stack bottom to top, _redo_stack bottom to top
RefList(r) == << r.cur, r.base >> \o r.undo \o r.redo

FirstPos(x, L) ==
    CHOOSE i \in 1..Len(L) : L[i] = x /\ \A j \in 1..(i - 1) : L[j] # x

\* object names carry no meaning: after each step every object is named by
\* the first reference of RefList that holds it
Canon(r) ==
    LET L == RefList(r)
        N(x) == IF x = NoId THEN NoId ELSE FirstPos(x, L)
    IN  [cur  |-> N(r.cur),
         base |-> N(r.base),
         undo |-> [i \in 1..Len(r.undo) |-> N(r.undo[i])],
         redo |-> [i \in 1..Len(r.redo) |-> N(r.redo[i])]]

\* the k-th object allocated in a step: a name no reference holds
FreshId(k) == Len(RefList(ids)) + k

\* mutant of ndarray.copy(): the same object is handed back
CopyId_Alias(id, fresh) == id

\* ndarray.copy(): a new object
CopyId(id, fresh) == fresh

\* _preview_slider_effect: the preview is a new buffer from the processor
IdsPreview(r, fresh) ==
    IF r.cur = NoId \/ r.base = NoId \/ active_slider = NoSlider THEN r
    ELSE [r EXCEPT !.cur = fresh]

\* HistoryManager.push, undo, redo on the objects; copy is the object that
\* img.copy() or current_img.copy() makes inside the method
IdsPush(r, copy) ==
    LET h == History_push(r.undo, r.redo, max_states, copy)
    IN  [r EXCEPT !.undo = h.undo, !.redo = h.redo]

IdsUndo(r, copy) ==
    LET h == History_undo(r.undo, r.redo, copy)
    IN  IF ~can_undo(r.undo) THEN r
        ELSE [r EXCEPT !.undo = h.undo, !.redo = h.redo, !.cur = h.ret]

IdsRedo(r, copy) ==
    LET h == History_redo(r.undo, r.redo, copy)
    IN  IF ~can_redo(r.redo) THEN r
        ELSE [r EXCEPT !.undo = h.undo, !.redo = h.redo, !.cur = h.ret]

NoIds == [cur |-> NoId, base |-> NoId, undo |-> << >>, redo |-> << >>]

-----------------------------------------------------------------------------
(* A HistoryManager on its own, driven through its public methods *)

InitApp ==
    /\ current_image = NoImage
    /\ active_slider = NoSlider
    /\ slider_base_image = NoImage
    /\ blur_var = 0
    /\ bright_var = 0
    /\ contrast_var = 100
    /\ scale_var = 100
    /\ sess = IdleSess
    /\ steps = 0

InitGhost ==
    /\ call = NoCall
    /\ pre = [undo |-> << >>, redo |-> << >>, call |-> NoCall]
    /\ pushLog = << >>
    /\ phase = "push"
    /\ undoRun = 0
    /\ undoCount = 0
    /\ ids = NoIds

InitHistory ==
    /\ max_states \in 0..MaxCapacity
    /\ undo_stack = << >>
    /\ redo_stack = << >>
    /\ InitApp
    /\ InitGhost

CallPush(img) ==
    LET h == History_push(undo_stack, redo_stack, max_states, img)
    IN  /\ undo_stack' = h.undo
        /\ redo_stack' = h.redo
        /\ call' = Called("push", img, NoImage, TRUE, NoSlider)
        /\ pre' = Snapshot
        /\ TrackPush(img)
        /\ ids' = Canon(IdsPush(ids, CopyId(FreshId(1), FreshId(2))))
        /\ undoCount' = 0
        /\ UNCHANGED << max_states, appVars >>

CallUndo(cur) ==
    LET h == History_undo(undo_stack, redo_stack, cur)
    IN  /\ undo_stack' = h.undo
        /\ redo_stack' = h.redo
        /\ call' = Called("undo", cur, h.ret, FALSE, NoSlider)
        /\ pre' = Snapshot
        /\ TrackUndo
        /\ ids' = Canon([IdsUndo(ids, CopyId(FreshId(1), FreshId(2)))
                            EXCEPT !.cur = NoId])
        /\ undoCount' = IF h.ret = NoImage THEN undoCount
                        ELSE Min(undoCount + 1, MaxUndoCount)
        /\ UNCHANGED << max_states, appVars >>

CallRedo(cur) ==
    LET h == History_redo(undo_stack, redo_stack, cur)
    IN  /\ undo_stack' = h.undo
        /\ redo_stack' = h.redo
        /\ call' = Called("redo", cur, h.ret, FALSE, NoSlider)
        /\ pre' = Snapshot
        /\ TrackOther
        /\ ids' = Canon([IdsRedo(ids, CopyId(FreshId(1), FreshId(2)))
                            EXCEPT !.cur = NoId])
        /\ UNCHANGED undoCount
        /\ UNCHANGED << max_states, appVars >>

CallClear ==
    LET h == History_clear(undo_stack, redo_stack)
    IN  /\ undo_stack' = h.undo
        /\ redo_stack' = h.redo
        /\ call' = Called("clear", NoImage, NoImage, FALSE, NoSlider)
        /\ pre' = Snapshot
        /\ TrackClear
        /\ ids' = NoIds
        /\ undoCount' = 0
        /\ UNCHANGED << max_states, appVars >>

NextHistory ==
    \/ \E img \in Files : CallPush(img)
    \/ \E cur \in Files : CallUndo(cur)
    \/ \E cur \in Files : CallRedo(cur)
    \/ CallClear

SpecHistory == InitHistory /\ [][NextHistory]_vars

-----------------------------------------------------------------------------
(* app.py: ImageEditorApp *)

\* mutant of the preview: the effect is applied to the image on screen
preview_slider_effect_OnCurrent(cur, base, active, bv, brv, cv) ==
    IF cur = NoImage \/ base = NoImage \/ active = NoSlider THEN cur
    ELSE IF active = "blur" THEN blur(cur, bv)
    ELSE IF active = "brightness" THEN adjust_brightness(cur, brv)
    ELSE IF active = "contrast" THEN adjust_contrast(cur, cv)
    ELSE cur

\* ImageEditorApp._preview_slider_effect: the current image afterwards, given
\* the values of the three slider variables
preview_slider_effect(cur, base, active, bv, brv, cv) ==
    IF cur = NoImage \/ base = NoImage \/ active = NoSlider THEN cur
    ELSE IF active = "blur" THEN blur(base, bv)
    ELSE IF active = "brightness" THEN adjust_brightness(base, brv)
    ELSE IF active = "contrast" THEN adjust_contrast(base, cv)
    ELSE cur

\* ImageEditorApp._require_image
require_image(cur) == cur # NoImage

\* the current image after reset_sliders: blur_var.set(0), bright_var.set(0)
\* and contrast_var.set(100) each fire the write trace, which runs
\* _on_slider_value_change and with it the preview
reset_sliders_image(cur, base, active, brv, cv) ==
    LET c1 == preview_slider_effect(cur, base, active, 0, brv, cv)
        c2 == preview_slider_effect(c1, base, active, 0, 0, cv)
    IN  preview_slider_effect(c2, base, active, 0, 0, 100)

Step(op, arg, ret, pushed, slider) ==
    /\ steps < MaxEvents
    /\ steps' = steps + 1
    /\ call' = Called(op, arg, ret, pushed, slider)
    /\ UNCHANGED << max_states, trackVars >>

\* every event other than a slider move ends the run "press, moves" that the
\* history variable sess follows
sessImpure == IF active_slider = NoSlider THEN sess ELSE [sess EXCEPT !.pure = FALSE]

\* mutant of the press: the session is opened before _require_image() is asked
start_slider_edit_NoRequire(slider_name) ==
    /\ Step("press", NoImage, NoImage, FALSE, slider_name)
    /\ ids' = IF ~require_image(current_image) THEN ids
              ELSE Canon([ids EXCEPT !.base = CopyId(ids.cur, FreshId(1))])
    /\ active_slider' = slider_name
    /\ IF ~require_image(current_image)
         THEN UNCHANGED << slider_base_image, sess >>
         ELSE /\ slider_base_image' = Copy(current_image)
              /\ sess' = [B0 |-> current_image, undo0 |-> undo_stack,
                          n |-> 0, pure |-> TRUE]
    /\ UNCHANGED << undo_stack, redo_stack, current_image,
                    blur_var, bright_var, contrast_var, scale_var >>

\* <ButtonPress-1> on a scale: _start_slider_edit(slider_name)
start_slider_edit(slider_name) ==
    /\ Step("press", NoImage, NoImage, FALSE, slider_name)
    /\ ids' = IF ~require_image(current_image) THEN ids
              ELSE Canon([ids EXCEPT !.base = CopyId(ids.cur, FreshId(1))])
    /\ IF ~require_image(current_image)
         THEN UNCHANGED << active_slider, slider_base_image, sess >>
         ELSE /\ active_slider' = slider_name
              /\ slider_base_image' = Copy(current_image)
              /\ sess' = [B0 |-> current_image, undo0 |-> undo_stack,
                          n |-> 0, pure |-> TRUE]
    /\ UNCHANGED << undo_stack, redo_stack, current_image,
                    blur_var, bright_var, contrast_var, scale_var >>

\* mutant of the slider move: every preview is pushed to the history
on_slider_value_change_Pushes(slider_name, value) ==
    LET bv == IF slider_name = "blur" THEN value ELSE blur_var
        brv == IF slider_name = "brightness" THEN value ELSE bright_var
        cv == IF slider_name = "contrast" THEN value ELSE contrast_var
        live == active_slider # NoSlider /\ current_image # NoImage
        h == History_push(undo_stack, redo_stack, max_states, current_image)
    IN  /\ Step("move", NoImage, NoImage, live, slider_name)
        /\ ids' = Canon(IdsPreview(IF live THEN IdsPush(ids, CopyId(ids.cur, FreshId(2)))
                                        ELSE ids, FreshId(1)))
        /\ blur_var' = bv
        /\ bright_var' = brv
        /\ contrast_var' = cv
        /\ current_image' =
              preview_slider_effect(current_image, slider_base_image,
                                    active_slider, bv, brv, cv)
        /\ undo_stack' = IF live THEN h.undo ELSE undo_stack
        /\ redo_stack' = IF live THEN h.redo ELSE redo_stack
        /\ sess' = IF active_slider = NoSlider THEN sess
                   ELSE [sess EXCEPT !.n = sess.n + 1]
        /\ UNCHANGED << active_slider, slider_base_image, scale_var >>

\* the user moves a scale: Tk writes its variable, the write trace runs
\* _on_slider_value_change and so _preview_slider_effect
on_slider_value_change(slider_name, value) ==
    LET bv == IF slider_name = "blur" THEN value ELSE blur_var
        brv == IF slider_name = "brightness" THEN value ELSE bright_var
        cv == IF slider_name = "contrast" THEN value ELSE contrast_var
    IN  /\ Step("move", NoImage, NoImage, FALSE, slider_name)
        /\ ids' = Canon(IdsPreview(ids, FreshId(1)))
        /\ blur_var' = bv
        /\ bright_var' = brv
        /\ contrast_var' = cv
        /\ current_image' =
              preview_slider_effect(current_image, slider_base_image,
                                    active_slider, bv, brv, cv)
        /\ sess' = IF active_slider = NoSlider THEN sess
                   ELSE [sess EXCEPT !.n = sess.n + 1]
        /\ UNCHANGED << undo_stack, redo_stack, active_slider,
                        slider_base_image, scale_var >>

\* the user moves the resize scale: its trace only updates the label
update_scale_label(value) ==
    /\ Step("scale", NoImage, NoImage, FALSE, NoSlider)
    /\ ids' = ids
    /\ scale_var' = value
    /\ UNCHANGED << undo_stack, redo_stack, current_image, active_slider,
                    slider_base_image, blur_var, bright_var, contrast_var, sess >>

\* mutant of the release: without a captured base the image on screen is pushed
commit_slider_edit_Unguarded ==
    LET img == IF slider_base_image = NoImage THEN current_image
               ELSE slider_base_image
        h == History_push(undo_stack, redo_stack, max_states, img)
    IN  IF img = NoImage
          THEN /\ Step("release", NoImage, NoImage, FALSE, active_slider)
               /\ ids' = ids
               /\ active_slider' = NoSlider
               /\ sess' = IdleSess
               /\ UNCHANGED << undo_stack, redo_stack, current_image,
                               slider_base_image, blur_var, bright_var,
                               contrast_var, scale_var >>
          ELSE /\ Step("release", img, NoImage, TRUE, active_slider)
               /\ ids' = Canon(IdsPush([ids EXCEPT !.base = NoId],
                                      CopyId(IF ids.base = NoId THEN ids.cur ELSE ids.base,
                                             FreshId(1))))
               /\ undo_stack' = h.undo
               /\ redo_stack' = h.redo
               /\ slider_base_image' = NoImage
               /\ active_slider' = NoSlider
               /\ sess' = IdleSess
               /\ UNCHANGED << current_image, blur_var, bright_var,
                               contrast_var, scale_var >>

\* mutant of the release: the preview on screen is pushed, not the base
commit_slider_edit_PushCurrent ==
    IF slider_base_image = NoImage
      THEN /\ Step("release", NoImage, NoImage, FALSE, active_slider)
           /\ ids' = ids
           /\ active_slider' = NoSlider
           /\ sess' = IdleSess
           /\ UNCHANGED << undo_stack, redo_stack, current_image,
                           slider_base_image, blur_var, bright_var,
                           contrast_var, scale_var >>
      ELSE LET h == History_push(undo_stack, redo_stack, max_states,
                                 current_image)
           IN  /\ Step("release", slider_base_image, NoImage, TRUE, active_slider)
               /\ ids' = Canon(IdsPush([ids EXCEPT !.base = NoId],
                                      CopyId(ids.cur, FreshId(1))))
               /\ undo_stack' = h.undo
               /\ redo_stack' = h.redo
               /\ slider_base_image' = NoImage
               /\ active_slider' = NoSlider
               /\ sess' = IdleSess
               /\ UNCHANGED << current_image, blur_var, bright_var,
                               contrast_var, scale_var >>

\* <ButtonRelease-1> on a scale: _commit_slider_edit()
commit_slider_edit ==
    IF slider_base_image = NoImage
      THEN /\ Step("release", NoImage, NoImage, FALSE, active_slider)
           /\ ids' = ids
           /\ active_slider' = NoSlider
           /\ sess' = IdleSess
           /\ UNCHANGED << undo_stack, redo_stack, current_image,
                           slider_base_image, blur_var, bright_var,
                           contrast_var, scale_var >>
      ELSE LET h == History_push(undo_stack, redo_stack, max_states,
                                 slider_base_image)
           IN  /\ Step("release", slider_base_image, NoImage, TRUE, active_slider)
               /\ ids' = Canon(IdsPush([ids EXCEPT !.base = NoId],
                                      CopyId(ids.base, FreshId(1))))
               /\ undo_stack' = h.undo
               /\ redo_stack' = h.redo
               /\ slider_base_image' = NoImage
               /\ active_slider' = NoSlider
               /\ sess' = IdleSess
               /\ UNCHANGED << current_image, blur_var, bright_var,
                               contrast_var, scale_var >>

\* the Reset Sliders button
reset_sliders ==
    /\ Step("reset", NoImage, NoImage, FALSE, NoSlider)
    /\ ids' = Canon(IdsPreview(ids, FreshId(1)))
    /\ blur_var' = 0
    /\ bright_var' = 0
    /\ contrast_var' = 100
    /\ scale_var' = 100
    /\ current_image' =
          reset_sliders_image(current_image, slider_base_image,
                              active_slider, bright_var, contrast_var)
    /\ sess' = sessImpure
    /\ UNCHANGED << undo_stack, redo_stack, active_slider, slider_base_image >>

\* File > Open with a file that cv2.imread reads as img
open_image(img) ==
    LET h == History_clear(undo_stack, redo_stack)
    IN  /\ Step("open", img, NoImage, FALSE, NoSlider)
        /\ ids' = Canon(IdsPreview([ids EXCEPT !.cur = FreshId(1), !.undo = << >>,
                                               !.redo = << >>], FreshId(2)))
        /\ undo_stack' = h.undo
        /\ redo_stack' = h.redo
        /\ blur_var' = 0
        /\ bright_var' = 0
        /\ contrast_var' = 100
        /\ scale_var' = 100
        /\ current_image' =
              reset_sliders_image(img, slider_base_image, active_slider,
                                  bright_var, contrast_var)
        /\ sess' = sessImpure
        /\ UNCHANGED << active_slider, slider_base_image >>

\* File > Open cancelled in the dialog, or read_image raising ValueError
open_image_failed ==
    /\ Step("open_failed", NoImage, NoImage, FALSE, NoSlider)
    /\ ids' = ids
    /\ sess' = sessImpure
    /\ UNCHANGED << undo_stack, redo_stack, current_image, active_slider,
                    slider_base_image, blur_var, bright_var, contrast_var,
                    scale_var >>

\* Edit > Undo, Ctrl-Z
App_undo ==
    IF current_image = NoImage
      THEN /\ Step("undo", NoImage, NoImage, FALSE, NoSlider)
           /\ ids' = ids
           /\ sess' = sessImpure
           /\ UNCHANGED << undo_stack, redo_stack, current_image,
                           active_slider, slider_base_image, blur_var,
                           bright_var, contrast_var, scale_var >>
      ELSE LET h == History_undo(undo_stack, redo_stack, current_image)
           IN  /\ Step("undo", current_image, h.ret, FALSE, NoSlider)
               /\ ids' = Canon(IdsUndo(ids, CopyId(ids.cur, FreshId(1))))
               /\ undo_stack' = h.undo
               /\ redo_stack' = h.redo
               /\ current_image' = IF h.ret = NoImage THEN current_image ELSE h.ret
               /\ sess' = sessImpure
               /\ UNCHANGED << active_slider, slider_base_image, blur_var,
                               bright_var, contrast_var, scale_var >>

\* Edit > Redo, Ctrl-Y
App_redo ==
    IF current_image = NoImage
      THEN /\ Step("redo", NoImage, NoImage, FALSE, NoSlider)
           /\ ids' = ids
           /\ sess' = sessImpure
           /\ UNCHANGED << undo_stack, redo_stack, current_image,
                           active_slider, slider_base_image, blur_var,
                           bright_var, contrast_var, scale_var >>
      ELSE LET h == History_redo(undo_stack, redo_stack, current_image)
           IN  /\ Step("redo", current_image, h.ret, FALSE, NoSlider)
               /\ ids' = Canon(IdsRedo(ids, CopyId(ids.cur, FreshId(1))))
               /\ undo_stack' = h.undo
               /\ redo_stack' = h.redo
               /\ current_image' = IF h.ret = NoImage THEN current_image ELSE h.ret
               /\ sess' = sessImpure
               /\ UNCHANGED << active_slider, slider_base_image, blur_var,
                               bright_var, contrast_var, scale_var >>

\* an apply_* handler that returns at once: _require_image() is False
edit_refused(kind) ==
    /\ Step(kind, NoImage, NoImage, FALSE, NoSlider)
    /\ ids' = ids
    /\ sess' = sessImpure
    /\ UNCHANGED << undo_stack, redo_stack, current_image, active_slider,
                    slider_base_image, blur_var, bright_var, contrast_var,
                    scale_var >>

\* mutant of _apply_change: the push comes after the assignment, so the
\* edited image is what the history gets
apply_change_PushAfter(kind, new_img) ==
    IF current_image = NoImage
      THEN edit_refused(kind)
      ELSE LET h == History_push(undo_stack, redo_stack, max_states, new_img)
           IN  /\ Step(kind, current_image, NoImage, TRUE, NoSlider)
               /\ ids' = Canon(IdsPush([ids EXCEPT !.cur = FreshId(1)],
                                      CopyId(FreshId(1), FreshId(2))))
               /\ undo_stack' = h.undo
               /\ redo_stack' = h.redo
               /\ current_image' = new_img
               /\ sess' = sessImpure
               /\ UNCHANGED << active_slider, slider_base_image, blur_var,
                               bright_var, contrast_var, scale_var >>

\* ImageEditorApp._apply_change(new_img, action); kind names the handler
apply_change(kind, new_img) ==
    IF current_image = NoImage
      THEN edit_refused(kind)
      ELSE LET h == History_push(undo_stack, redo_stack, max_states,
                                 current_image)
           IN  /\ Step(kind, current_image, NoImage, TRUE, NoSlider)
               /\ ids' = Canon([IdsPush(ids, CopyId(ids.cur, FreshId(2)))
                                  EXCEPT !.cur = FreshId(1)])
               /\ undo_stack' = h.undo
               /\ redo_stack' = h.redo
               /\ current_image' = new_img
               /\ sess' = sessImpure
               /\ UNCHANGED << active_slider, slider_base_image, blur_var,
                               bright_var, contrast_var, scale_var >>

apply_grayscale ==
    IF ~require_image(current_image) THEN edit_refused("grayscale")
    ELSE apply_change("grayscale", to_grayscale(current_image))

apply_edges ==
    IF ~require_image(current_image) THEN edit_refused("edges")
    ELSE apply_change("edges", edges(current_image))

apply_rotate(angle) ==
    IF ~require_image(current_image) THEN edit_refused("rotate")
    ELSE apply_change("rotate", rotate(current_image, angle))

apply_flip(mode) ==
    IF ~require_image(current_image) THEN edit_refused("flip")
    ELSE apply_change("flip", flip(current_image, mode))

apply_resize ==
    IF ~require_image(current_image) THEN edit_refused("resize")
    ELSE apply_change("resize", resize_scale(current_image, scale_var))

OneShotEdits == {"grayscale", "edges", "rotate", "flip", "resize"}

\* ImageEditorApp.__init__
Init ==
    /\ max_states = APP_MAX_STATES
    /\ undo_stack = << >>
    /\ redo_stack = << >>
    /\ InitApp
    /\ InitGhost

Next ==
    \/ \E img \in Files : open_image(img)
    \/ open_image_failed
    \/ \E s \in Sliders : start_slider_edit(s)
    \/ \E v \in BlurValues : on_slider_value_change("blur", v)
    \/ \E v \in BrightValues : on_slider_value_change("brightness", v)
    \/ \E v \in ContrastValues : on_slider_value_change("contrast", v)
    \/ \E v \in ScaleValues : update_scale_label(v)
    \/ commit_slider_edit
    \/ reset_sliders
    \/ App_undo
    \/ App_redo
    \/ apply_grayscale
    \/ apply_edges
    \/ \E angle \in Angles : apply_rotate(angle)
    \/ \E mode \in FlipModes : apply_flip(mode)
    \/ apply_resize

Spec == Init /\ [][Next]_vars

-----------------------------------------------------------------------------
(* Properties *)

LastN(s, n) == SubSeq(s, Len(s) - n + 1, Len(s))

\* C1: after n pushes on an empty HistoryManager of capacity max_states >= 1
\* the undo stack holds exactly the last min(n, max_states) pushed snapshots,
\* oldest first, and the redo stack is empty.
C1_PushKeepsNewest ==
    (phase = "push" /\ max_states >= 1) =>
        /\ undo_stack = LastN(pushLog, Min(Len(pushLog), max_states))
        /\ redo_stack = << >>

\* C1 witness: more pushes than the capacity, so the oldest was dropped
C1_Witness ==
    /\ phase = "push"
    /\ call.op = "push"
    /\ max_states >= 1
    /\ Len(pushLog) > max_states
    /\ pushLog[1] # pushLog[Len(pushLog)]

\* C2: the undo stack never holds more than max_states snapshots, whatever
\* the interleaving of push, undo, redo and clear.
C2_UndoWithinCapacity ==
    Len(undo_stack) <= max_states

\* C2 witness: a redo has just refilled the undo stack up to its capacity
C2_Witness ==
    /\ call.op = "redo"
    /\ call.ret # NoImage
    /\ max_states >= 1
    /\ Len(undo_stack) = max_states

\* C7: undo(C) returning R, followed at once by redo(R), returns C and puts
\* both stacks back to what they were before the undo.
C7_UndoRedoRoundTrip ==
    [][ ( /\ call.op = "undo"
          /\ call.ret # NoImage
          /\ call'.op = "redo"
          /\ call'.arg = call.ret )
        => ( /\ call'.ret = call.arg
             /\ undo_stack' = pre.undo
             /\ redo_stack' = pre.redo ) ]_vars

\* C7 witness: a redo of the image a successful undo just returned, with
\* snapshots left on both stacks
C7_Witness ==
    /\ call.op = "redo"
    /\ pre.call.op = "undo"
    /\ pre.call.ret # NoImage
    /\ call.arg = pre.call.ret
    /\ Len(undo_stack) >= 1
    /\ Len(redo_stack) >= 1

\* what one successful undo and one successful redo do to the stacks
UndoRedoStep ==
    /\ (call.op = "undo" /\ pre.undo # << >>) =>
          /\ call.ret = Last(pre.undo)
          /\ undo_stack = Front(pre.undo)
          /\ redo_stack = Append(pre.redo, call.arg)
    /\ (call.op = "redo" /\ pre.redo # << >>) =>
          /\ call.ret = Last(pre.redo)
          /\ redo_stack = Front(pre.redo)
          /\ undo_stack = Append(pre.undo, call.arg)

\* C9 as stated: a successful undo returns the newest undo snapshot, removes
\* it and puts the current image on the redo stack, redo is the mirror image,
\* and the k-th of k consecutive undos after n >= k pushes returns the k-th
\* newest pushed snapshot (for any capacity max_states >= 1).
C9_Original ==
    /\ UndoRedoStep
    /\ (phase = "undo" /\ max_states >= 1) =>
          call.ret = pushLog[Len(pushLog) - undoRun + 1]

\* C9 amended: the same, for k <= min(n, max_states) consecutive undos (a
\* snapshot evicted by the capacity cannot come back).
C9_UndoReturnsNewest ==
    /\ UndoRedoStep
    /\ (phase = "undo" /\ undoRun <= max_states) =>
          call.ret = pushLog[Len(pushLog) - undoRun + 1]

\* C9 witness: the second of two consecutive undos after the pushes
C9_Witness ==
    /\ phase = "undo"
    /\ undoRun = 2
    /\ undoRun <= max_states
    /\ call.op = "undo"
    /\ call.ret # pre.call.ret

\* the effect of the slider `slider` at the values bv, brv, cv on img
SliderTransform(slider, img, bv, brv, cv) ==
    CASE slider = "blur" -> blur(img, bv)
      [] slider = "brightness" -> adjust_brightness(img, brv)
      [] slider = "contrast" -> adjust_contrast(img, cv)

\* C3 as stated: a press while a session is active leaves the active control
\* and the captured base image as they were.
C3_SecondPressRejected ==
    [][ (call'.op = "press" /\ active_slider # NoSlider)
        => ( /\ active_slider' = active_slider
             /\ slider_base_image' = slider_base_image ) ]_vars

\* C4: a preview in a session equals the active control's transform of the
\* base image captured at the press, at the control's present value, and
\* leaves the stored base as it was captured.
C4_PreviewFromBase ==
    [][ (call'.op = "move" /\ active_slider # NoSlider)
        => ( /\ current_image' =
                  SliderTransform(active_slider, sess.B0,
                                  blur_var', bright_var', contrast_var')
             /\ slider_base_image' = sess.B0
             /\ slider_base_image = sess.B0 ) ]_vars

\* C4 witness: the second preview of a session, and it differs from the base
C4_Witness ==
    /\ call.op = "move"
    /\ active_slider # NoSlider
    /\ sess.pure
    /\ sess.n >= 2
    /\ current_image # sess.B0
    /\ slider_base_image = sess.B0

\* C5: previews change neither stack, and the release that ends a session of
\* a press and N previews leaves the undo stack as it was at the press plus
\* one entry, the base image, the redo stack empty and the session Idle.
C5_SessionCommitsOnce ==
    [][ /\ call'.op = "move" => UNCHANGED << undo_stack, redo_stack >>
        /\ (call'.op = "release" /\ active_slider # NoSlider /\ sess.pure)
           => ( /\ Len(undo_stack') = Min(Len(sess.undo0) + 1, max_states)
                /\ Last(undo_stack') = sess.B0
                /\ Front(undo_stack') = LastN(sess.undo0, Len(undo_stack') - 1)
                /\ redo_stack' = << >>
                /\ active_slider' = NoSlider
                /\ slider_base_image' = NoImage ) ]_vars

\* C5 witness: a release after a press and at least two previews; the one new
\* entry is the base, not the preview on screen
C5_Witness ==
    /\ call.op = "release"
    /\ call.pushed
    /\ call.sess.pure
    /\ call.sess.n >= 2
    /\ Len(undo_stack) = call.nundo + 1
    /\ current_image # Last(undo_stack)

\* C6: every operation that calls push leaves the redo stack empty.
C6_PushClearsRedo ==
    call.pushed => (redo_stack = << >> /\ ~can_redo(redo_stack))

\* C6 witness: a push that found snapshots on the redo stack
C6_Witness ==
    /\ call.pushed
    /\ call.nredo > 0

\* C8: undo with an empty undo stack and redo with an empty redo stack return
\* nothing and change neither stack nor the current image.
C8_EmptyUndoRedoNoOp ==
    [][ /\ (call'.op = "undo" /\ ~can_undo(undo_stack))
           => ( /\ call'.ret = NoImage
                /\ UNCHANGED << undo_stack, redo_stack, current_image >> )
        /\ (call'.op = "redo" /\ ~can_redo(redo_stack))
           => ( /\ call'.ret = NoImage
                /\ UNCHANGED << undo_stack, redo_stack, current_image >> ) ]_vars

\* C8 witness: Undo pressed with an image loaded, nothing to undo and a
\* snapshot on the redo stack
C8_Witness ==
    /\ call.op = "undo"
    /\ call.nundo = 0
    /\ current_image # NoImage
    /\ redo_stack # << >>

\* C10: with no session active, a slider move and a release leave the session
\* Idle and change neither the current image nor the stacks.
C10_IdleEventsNoOp ==
    [][ (call'.op \in {"move", "release"} /\ active_slider = NoSlider)
        => ( /\ active_slider' = NoSlider
             /\ slider_base_image' = NoImage
             /\ UNCHANGED << current_image, undo_stack, redo_stack >> ) ]_vars

\* C10 witness: a second release right after the release that committed
C10_Witness ==
    /\ call.op = "release"
    /\ ~call.pushed
    /\ current_image # NoImage
    /\ active_slider = NoSlider
    /\ Len(undo_stack) >= 1

\* C11: an Undo right after a one-shot edit makes the image from before the
\* edit current again and keeps the edited image on top of the redo stack; a
\* Redo right after a successful Undo brings back the image the Undo replaced.
C11_EditUndoRedo ==
    [][ /\ (call.op \in OneShotEdits /\ call.pushed /\ call'.op = "undo")
           => ( /\ current_image' = call.arg
                /\ call'.ret = call.arg
                /\ Last(redo_stack') = current_image )
        /\ (call.op = "undo" /\ call.ret # NoImage /\ call'.op = "redo")
           => ( /\ current_image' = call.arg
                /\ Last(undo_stack') = current_image ) ]_vars

\* C11 witness: a Redo has brought back the grayscale image that an Undo had
\* replaced by the colour image it was made from
C11_Witness ==
    /\ call.op = "redo"
    /\ call.ret = current_image
    /\ undo_stack # << >>
    /\ current_image = to_grayscale(Last(undo_stack))
    /\ current_image # Last(undo_stack)
    /\ redo_stack = << >>

\* C12: the release of a session of a press and previews leaves on screen the
\* last preview (the active control's transform of the base X), and an Undo
\* right after that release makes X current with the preview on the redo stack.
C12_SessionUndo ==
    [][ /\ (call'.op = "release" /\ active_slider # NoSlider /\ sess.pure)
           => ( /\ current_image' = current_image
                /\ call'.arg = sess.B0
                /\ sess.n >= 1 =>
                     current_image' =
                        SliderTransform(active_slider, sess.B0, blur_var,
                                        bright_var, contrast_var) )
        /\ (call.op = "release" /\ call.pushed /\ call'.op = "undo")
           => ( /\ current_image' = call.arg
                /\ Last(redo_stack') = current_image
                /\ Len(undo_stack') = Len(undo_stack) - 1 ) ]_vars

\* C12 witness: an Undo has made current an image whose slider transform,
\* different from it, is on top of the redo stack
C12_Witness ==
    /\ call.op = "undo"
    /\ call.ret = current_image
    /\ call.ret # NoImage
    /\ redo_stack # << >>
    /\ Last(redo_stack) # current_image
    /\ \E s \in Sliders :
          Last(redo_stack) =
             SliderTransform(s, current_image, blur_var, bright_var, contrast_var)

\* C13: the base image is held exactly while a session is active.
C13_BaseIffActive ==
    (slider_base_image = NoImage) <=> (active_slider = NoSlider)

\* C13 witness: a session that is still active after an Undo went through
C13_Witness ==
    /\ active_slider # NoSlider
    /\ slider_base_image # NoImage
    /\ call.op = "undo"
    /\ call.ret # NoImage

\* the values a scale can be set to (from_ .. to of each tk.Scale); the blur
\* scale goes on to 50, GaussKernel tabulates the kernels up to 7 taps
ScaleRange(slider) ==
    CASE slider = "blur" -> 0..6
      [] slider = "brightness" -> (-100)..100
      [] slider = "contrast" -> 0..200

\* C14 as stated: while a session is active the current image is the
\* session's base image or the active control's transform of it at some
\* value of the scale, whatever events arrive during the drag.
C14_CurrentFromBase ==
    active_slider # NoSlider =>
        \/ current_image = slider_base_image
        \/ \E p \in ScaleRange(active_slider) :
              current_image =
                 SliderTransform(active_slider, slider_base_image, p, p, p)

\* the step has put img on top of the stack s
Stored(s_after, s_before, img) ==
    /\ s_after # s_before
    /\ Len(s_after) >= Len(s_before)
    /\ s_after # << >>
    /\ Last(s_after) = img

\* C15 as stated: the preview on screen of a session that stays active (here
\* one that differs from the base) is never stored in the undo stack or the
\* redo stack.
C15_PreviewNotStored ==
    [][ ( /\ call.op = "move"
          /\ active_slider # NoSlider
          /\ current_image # slider_base_image
          /\ active_slider' # NoSlider )
        => ( /\ ~Stored(undo_stack', undo_stack, current_image)
             /\ ~Stored(redo_stack', redo_stack, current_image) ) ]_vars

\* C16 as stated: a successful open leaves both stacks empty and the image
\* read current, and nothing captured before the open enters the history
\* afterwards (the release that directly follows an open pushes nothing).
C16_OpenStartsFresh ==
    [][ /\ call'.op = "open"
           => ( /\ current_image' = call'.arg
                /\ undo_stack' = << >>
                /\ redo_stack' = << >> )
        /\ (call.op = "open" /\ call'.op = "release") => ~call'.pushed ]_vars

\* C19 as stated: Reset Sliders changes neither the current image nor the
\* stacks, in whatever state it is pressed.
C19_ResetKeepsImage ==
    [][ call'.op = "reset"
        => UNCHANGED << current_image, undo_stack, redo_stack >> ]_vars

\* C17: the redo stack never holds more snapshots than successful undos were
\* made since the last push or clear; with no such undo it is empty.
C17_RedoBoundedByUndos ==
    /\ undoCount < MaxUndoCount => Len(redo_stack) <= undoCount
    /\ undoCount = 0 => (redo_stack = << >> /\ ~can_redo(redo_stack))

\* C17 witness: a redo has taken one of the two snapshots that two undos had
\* put on the redo stack
C17_Witness ==
    /\ call.op = "redo"
    /\ call.ret # NoImage
    /\ undoCount = 2
    /\ Len(redo_stack) = 1

\* C20: the two stacks together never hold more than max_states snapshots,
\* and undo and redo leave their combined size as it was.
C20_TotalWithinCapacity ==
    /\ history_len(undo_stack, redo_stack) <= max_states
    /\ call.op \in {"undo", "redo"} =>
          history_len(undo_stack, redo_stack) = history_len(pre.undo, pre.redo)

\* C20 witness: an undo with the stacks full has moved a snapshot to the redo
\* stack and left one on the undo stack
C20_Witness ==
    /\ call.op = "undo"
    /\ call.ret # NoImage
    /\ Len(undo_stack) >= 1
    /\ Len(redo_stack) >= 1
    /\ history_len(undo_stack, redo_stack) = max_states

\* C18: the current image, the session's base image and the entries of the
\* two stacks are pairwise distinct objects, and every reference that holds an
\* image holds an object.
C18_NoAliasing ==
    LET L == RefList(ids)
    IN  /\ \A i, j \in 1..Len(L) : (i < j /\ L[i] # NoId) => L[i] # L[j]
        /\ (ids.cur = NoId) <=> (current_image = NoImage)
        /\ (ids.base = NoId) <=> (slider_base_image = NoImage)
        /\ Len(ids.undo) = Len(undo_stack)
        /\ Len(ids.redo) = Len(redo_stack)
        /\ \A i \in 1..Len(ids.undo) : ids.undo[i] # NoId
        /\ \A i \in 1..Len(ids.redo) : ids.redo[i] # NoId

\* C18 witness: a session is open on an image that an Undo has made current;
\* its base has the same pixels and is another object, and both stacks hold
\* snapshots
C18_Witness ==
    /\ ids.base # NoId
    /\ ids.cur # NoId
    /\ current_image = slider_base_image
    /\ ids.cur # ids.base
    /\ undo_stack # << >>
    /\ redo_stack # << >>

====
